---- MODULE Spec2Model ----
(***************************************************************************)
(* Coverage classification and depth-computation orchestration of          *)
(* bcbio/variation/coverage.py, as a state machine over the sample's       *)
(* configuration slot, the work directory (files with an existence flag,   *)
(* a modification time and a content) and the position of the running      *)
(* call.                                                                   *)
(***************************************************************************)
EXTENDS Integers, Sequences, FiniteSets, TLC

(* ------------------------------------------------------------------ *)
(* Bounds of the model                                                 *)
(* ------------------------------------------------------------------ *)
\* largest region size / reference size drawn for assign_interval
MaxSize == 5
\* largest read count drawn for _count_offtarget (100 makes 1/100 reachable)
MaxReads == 100
\* last tick of the file-system clock
MaxTime == 2
\* largest average coverage value drawn for a computation
MaxCov == 2
\* largest number of lines of a region-depth or distribution file
MaxRows == 2
\* largest coordinate of a line of a region-depth file
MaxPos == 2
\* largest depth of a line of a region-depth file
MaxDepth == 3
\* largest count of a line of a distribution file, largest cutoff
MaxCount == 3

(* ------------------------------------------------------------------ *)
(* Program constants                                                   *)
(* ------------------------------------------------------------------ *)
\* GENOME_COV_THRESH = 0.40, as the fraction 40/100
GENOME_COV_THRESH == <<40, 100>>
\* OFFTARGET_THRESH = 0.01, as the fraction 1/100
OFFTARGET_THRESH == <<1, 100>>

VARIABLES
    coverage_interval,  \* data["config"]["algorithm"]["coverage_interval"]
    asg,                \* what the last assign_interval call read and did
    now,                \* the file-system clock
    fs,                 \* the work directory: file name -> file
    depth,              \* data["depth"]: targets whose bundle the caller stored
    run,                \* what the last run_mosdepth call did
    failed,             \* targets whose latest run_mosdepth call failed
    calc,               \* what the last calculate calls did
    gac,                \* what the last get_average_coverage call read and did
    avg,                \* what the last _average_bed_coverage call read and returned
    pct,                \* what the last _calculate_percentiles call did
    stats               \* what the last coverage_region_detailed_stats call did

vars == <<coverage_interval, asg, now, fs, depth, run, failed, calc, gac,
          avg, pct, stats>>

(* ------------------------------------------------------------------ *)
(* Fractions: a float p/q is kept as the pair <<p, q>>; q = 0 stands   *)
(* for the ZeroDivisionError python raises on that division.           *)
(* ------------------------------------------------------------------ *)
FracGT(a, b) == a[1] * b[2] > b[1] * a[2]

(* ================================================================== *)
(* Interval classifier                                                 *)
(* ================================================================== *)
Labels == {"genome", "regional", "amplicon"}

\* coverage.py 67-74: (mapped_unique - ontarget) / mapped_unique, 0.0 when
\* no read is mapped.  The two counts come from separate calls (68-70) and
\* the quotient is returned as computed: it is negative when ontarget
\* exceeds mapped_unique
_count_offtarget(mapped_unique, ontarget) ==
    IF mapped_unique # 0
    THEN <<mapped_unique - ontarget, mapped_unique>>
    ELSE <<0, 1>>

\* variant of classify with >= in place of > in both comparisons
classify_ge(vrs, genome_cov_pct, offtarget_pct) ==
    IF ~ FracGT(GENOME_COV_THRESH, genome_cov_pct) THEN "genome"
    ELSE IF ~vrs THEN "regional"
    ELSE IF ~ FracGT(OFFTARGET_THRESH, offtarget_pct) THEN "regional"
    ELSE "amplicon"

\* variant of classify that tests the target region file before the genome
\* coverage
classify_targets_first(vrs, genome_cov_pct, offtarget_pct) ==
    IF vrs
    THEN (IF FracGT(offtarget_pct, OFFTARGET_THRESH) THEN "regional" ELSE "amplicon")
    ELSE IF FracGT(genome_cov_pct, GENOME_COV_THRESH) THEN "genome"
    ELSE "regional"

\* coverage.py 49-61: the label from the two percentages
classify(vrs, genome_cov_pct, offtarget_pct) ==
    IF FracGT(genome_cov_pct, GENOME_COV_THRESH) THEN "genome"
    ELSE IF ~vrs THEN "regional"
    ELSE IF FracGT(offtarget_pct, OFFTARGET_THRESH) THEN "regional"
    ELSE "amplicon"

\* coverage.py 49-57: the reads are counted only on the last branch
counts_reads(vrs, genome_cov_pct) ==
    vrs /\ ~ FracGT(genome_cov_pct, GENOME_COV_THRESH)

AsgNone ==
    [called |-> FALSE, pre |-> "unset", vrs |-> FALSE, cs |-> 0, ts |-> 0,
     sized |-> FALSE, counted |-> FALSE, mu |-> 0, ot |-> 0,
     off |-> <<0, 1>>, raised |-> FALSE, wrote |-> FALSE, label |-> "unset"]

\* variant of assign_interval_body in which a total_size of 0 gives a
\* genome coverage of 0 in place of the ZeroDivisionError
assign_interval_body_nozero(vrs, cs, ts, mu, ot) ==
    LET counts == counts_reads(vrs, <<cs, ts>>)
        off    == IF counts THEN _count_offtarget(mu, ot) ELSE <<0, 1>>
        raises == off[2] = 0
        label  == classify(vrs, <<cs, ts>>, off)
    IN  /\ asg' = [called |-> TRUE, pre |-> coverage_interval, vrs |-> vrs,
                   cs |-> cs, ts |-> ts, sized |-> TRUE, counted |-> counts,
                   mu |-> IF counts THEN mu ELSE 0,
                   ot |-> IF counts THEN ot ELSE 0,
                   off |-> off, raised |-> raises, wrote |-> ~raises,
                   label |-> IF raises THEN coverage_interval ELSE label]
        /\ coverage_interval' = IF raises THEN coverage_interval ELSE label

\* coverage.py 41-64: the body run when the slot is unset.  The division of
\* line 48 raises when total_size is 0, before any read is counted and
\* before the slot is written.
assign_interval_body(vrs, cs, ts, mu, ot) ==
    LET counts == ts # 0 /\ counts_reads(vrs, <<cs, ts>>)
        off    == IF counts THEN _count_offtarget(mu, ot) ELSE <<0, 1>>
        raises == ts = 0 \/ off[2] = 0
        label  == classify(vrs, <<cs, ts>>, off)
    IN  /\ asg' = [called |-> TRUE, pre |-> coverage_interval, vrs |-> vrs,
                   cs |-> cs, ts |-> ts, sized |-> TRUE, counted |-> counts,
                   mu |-> IF counts THEN mu ELSE 0,
                   ot |-> IF counts THEN ot ELSE 0,
                   off |-> off, raised |-> raises, wrote |-> ~raises,
                   label |-> IF raises THEN coverage_interval ELSE label]
        /\ coverage_interval' = IF raises THEN coverage_interval ELSE label

\* variant of assign_interval without the guard of line 40
assign_interval_unguarded(vrs, cs, ts, mu, ot) ==
    assign_interval_body(vrs, cs, ts, mu, ot)

\* coverage.py 32-65.  vrs: a merged variant region file is configured;
\* cs: total_coverage() of it (or of the callable file); ts: summed contig
\* sizes; mu, ot: what the two read counts return when they are made.
assign_interval(vrs, cs, ts, mu, ot) ==
    IF coverage_interval # "unset"
    THEN /\ asg' = [AsgNone EXCEPT !.called = TRUE, !.pre = coverage_interval,
                                   !.vrs = vrs, !.cs = cs, !.ts = ts,
                                   !.label = coverage_interval]
         /\ UNCHANGED coverage_interval
    ELSE assign_interval_body(vrs, cs, ts, mu, ot)

(* ================================================================== *)
(* The work directory                                                  *)
(* ================================================================== *)
Targets == {"variant_regions", "sv_regions", "coverage"}
Kinds == {"dist", "per_base", "regions", "quantize", "thresholds"}

\* A file name is a pair <<owner, name>>.
BAM == <<"input", "bam">>
\* the region file configured for a target (variant_regions: the merged
\* variant regions, sv_regions: regions.get_sv_bed, coverage: dd.get_coverage)
Bed(t) == <<"input", t>>
\* coverage.py 117-118: <work>/coverage/<sample>/target-genome.bed
GenomeBed == <<"genome", "target-genome.bed">>
\* coverage.py 244-249: <prefix>.mosdepth.dist.txt, .per-base.bed.gz, ...
Art(t, k) == <<t, k>>
\* coverage.py 87-89: <work>/align/<sample>/<sample>-coverage.callable.bed
CallableOld == <<"align", "coverage.callable">>
\* coverage.py 128: "%s-vrsubset.bed" % splitext_plus(callable_file)[0]
VrSubsetOf(f) == <<f[1], f[2] \o "-vrsubset">>
\* coverage.py 134-139: <work>/align/<sample>/<sample>-coverage-<target>-stats.yaml
_get_cache_file(t) == <<"align", t \o "-stats.yaml">>

\* the files calculate can touch (it never asks for per-base output)
CalcFiles ==
    {BAM, GenomeBed, CallableOld, VrSubsetOf(CallableOld),
     VrSubsetOf(Art("variant_regions", "quantize"))}
    \cup {Bed(t) : t \in Targets}
    \cup {Art("variant_regions", k) : k \in {"dist", "regions", "quantize"}}
    \cup {Art("sv_regions", k) : k \in {"dist", "regions"}}
    \cup {Art("coverage", k) : k \in {"dist", "regions", "thresholds"}}

\* A file: ex (it exists), mt (its mtime), body (its content, a tagged
\* number; the tag "empty" is a file of size 0).
Absent == [ex |-> FALSE, mt |-> 0, body |-> <<"", 0>>]
File(mt, body) == [ex |-> TRUE, mt |-> mt, body |-> body]
Put(F, f, mt, body) == [F EXCEPT ![f] = File(mt, body)]

\* bcbio.utils.file_exists: the file exists and is not empty
file_exists(F, f) == F[f].ex /\ F[f].body[1] # "empty"

\* bcbio.utils.file_uptodate: both files exist (non-empty) and the first is
\* not older than the second
file_uptodate(F, f, cmp) ==
    /\ file_exists(F, f)
    /\ file_exists(F, cmp)
    /\ F[f].mt >= F[cmp].mt

(* ================================================================== *)
(* run_mosdepth                                                        *)
(* ================================================================== *)
\* coverage.py 245-249: the paths of the returned bundle that are not None
Requested(per_base, bed_file, quantize, thresholds) ==
    {"dist"} \cup (IF per_base THEN {"per_base"} ELSE {})
             \cup (IF bed_file THEN {"regions"} ELSE {})
             \cup (IF quantize THEN {"quantize"} ELSE {})
             \cup (IF thresholds THEN {"thresholds"} ELSE {})

\* The steps of the transactional block, in order: 1 the tool has written
\* its outputs below tx_prefix, 2..5 the four shutil.move calls, 6 the
\* exit of file_transaction, which moves the distribution file.
LastStep == 6

\* variant of MoveStep in which the tool writes the distribution file to its
\* final path (prefix in place of tx_prefix)
MoveStep_direct(k) ==
    CASE k = "dist"       -> 1
      [] k = "per_base"   -> 2
      [] k = "regions"    -> 3
      [] k = "quantize"   -> 4
      [] k = "thresholds" -> 5

\* coverage.py 251-275: the step at which the file of kind k reaches its
\* final path
MoveStep(k) ==
    CASE k = "per_base"   -> 2
      [] k = "regions"    -> 3
      [] k = "quantize"   -> 4
      [] k = "thresholds" -> 5
      [] k = "dist"       -> 6

\* coverage.py 264-267: what the tool writes from this alignment file
ToolOutput(F, k) == <<k, F[BAM].mt>>

\* coverage.py 238-276.  F: the work directory, clock: the time of the
\* call, stop: the number of steps of the transactional block completed
\* before the call fails (0: the tool exits non-zero; LastStep: no
\* failure).  Returns the directory after the call, whether the tool was
\* started, the outcome and the kinds whose final path was written.
run_mosdepth(F, clock, t, per_base, bed_file, quantize, thresholds, stop) ==
    LET out == Requested(per_base, bed_file, quantize, thresholds)
    IN  IF file_uptodate(F, Art(t, "dist"), BAM)
        THEN [fs |-> F, ran |-> FALSE, outcome |-> "skipped", moved |-> {},
              out |-> out]
        ELSE LET moved == {k \in out : MoveStep(k) <= stop}
                 Mv(G, k) == IF k \in moved
                             THEN Put(G, Art(t, k), clock, ToolOutput(F, k))
                             ELSE G
                 G == Mv(Mv(Mv(Mv(Mv(F, "per_base"), "regions"), "quantize"),
                            "thresholds"), "dist")
             IN  [fs |-> G, ran |-> TRUE,
                  outcome |-> IF stop = LastStep THEN "ok" ELSE "failed",
                  moved |-> moved, out |-> out]

RunNone ==
    [called |-> FALSE, t |-> "coverage", outcome |-> "skipped", ran |-> FALSE,
     moved |-> {}, complete |-> TRUE, fresh |-> FALSE, retry |-> FALSE]

\* a call of run_mosdepth by the pipeline, with the bookkeeping of the call:
\* moved, the kinds whose final path the call wrote; complete, every path
\* of the returned bundle is a file; fresh, the distribution file is up to
\* date when the call ends; retry, the call before it for this target failed
RunMosdepth(t, per_base, bed_file, quantize, thresholds, stop) ==
    \E r \in {run_mosdepth(fs, now, t, per_base, bed_file, quantize, thresholds, stop)} :
        /\ fs' = r.fs
        /\ run' = [called |-> TRUE, t |-> t, outcome |-> r.outcome, ran |-> r.ran,
                   moved |-> r.moved,
                   complete |-> \A k \in r.out : file_exists(r.fs, Art(t, k)),
                   fresh |-> file_uptodate(r.fs, Art(t, "dist"), BAM),
                   retry |-> t \in failed]
        /\ failed' = IF r.outcome = "failed" THEN failed \cup {t} ELSE failed \ {t}

(* ================================================================== *)
(* calculate                                                           *)
(* ================================================================== *)
\* coverage.py 112-123: the whole-genome region file is written, through
\* a file transaction, on every call
_create_genome_regions(F, clock) == Put(F, GenomeBed, clock, <<"bed", 0>>)

\* coverage.py 125-132.  empty: the intersection has no interval, so the
\* file saved is empty.  Reading a callable file that does not exist fails.
_subset_to_variant_regions(F, clock, callable_file, empty) ==
    IF file_uptodate(F, VrSubsetOf(callable_file), callable_file)
    THEN [fs |-> F, ok |-> TRUE, wrote |-> {}]
    ELSE IF ~ F[callable_file].ex
    THEN [fs |-> F, ok |-> FALSE, wrote |-> {}]
    ELSE [fs |-> Put(F, VrSubsetOf(callable_file), clock,
                     IF empty THEN <<"empty", 0>>
                     ELSE <<"vrsubset", F[callable_file].body[2]>>),
          ok |-> TRUE, wrote |-> {VrSubsetOf(callable_file)}]

\* coverage.py 96-106: one turn of the loop over to_calculate.  region_bed:
\* the target has a region file; failT, stop: the run_mosdepth call of
\* target failT fails after stop steps.
CalcTarget(acc, clock, t, region_bed, quantize, thresholds, failT, stop) ==
    IF ~acc.ok \/ ~region_bed THEN acc
    ELSE LET r == run_mosdepth(acc.fs, clock, t, FALSE, TRUE, quantize, thresholds,
                               IF t = failT THEN stop ELSE LastStep)
         IN  [fs |-> r.fs,
              ok |-> r.outcome # "failed",
              tools |-> acc.tools \cup (IF r.ran THEN {t} ELSE {}),
              writes |-> acc.writes \cup {Art(t, k) : k \in r.moved},
              depth_files |-> IF r.outcome # "failed"
                              THEN acc.depth_files \cup {t} ELSE acc.depth_files,
              callable_file |-> IF t = "variant_regions" /\ r.outcome # "failed"
                                THEN Art(t, "quantize") ELSE acc.callable_file]

\* coverage.py 109: the subsetting that ends a call whose loop completed
CalcFinish(a, clock, empty) ==
    IF ~a.ok THEN a
    ELSE LET s == _subset_to_variant_regions(a.fs, clock, a.callable_file, empty)
         IN  [a EXCEPT !.fs = s.fs, !.ok = s.ok, !.writes = a.writes \cup s.wrote]

\* coverage.py 76-110, as the state of the work directory and the returned
\* values after the call.  The three targets are taken in the order of
\* to_calculate; a legacy callable file that is up to date skips the loop.
calculate(F, clock, failT, stop, empty) ==
    LET vr == F[Bed("variant_regions")].ex
        F0 == IF vr THEN F ELSE _create_genome_regions(F, clock)
        a0 == [fs |-> F0, ok |-> TRUE, tools |-> {},
               writes |-> IF vr THEN {} ELSE {GenomeBed},
               depth_files |-> {}, callable_file |-> CallableOld]
    IN  IF file_uptodate(F0, CallableOld, BAM)
        THEN CalcFinish(a0, clock, empty)
        ELSE CHOOSE res \in
               {CalcFinish(a3, clock, empty) : a3 \in
                 {CalcTarget(a2, clock, "coverage", F[Bed("coverage")].ex,
                             FALSE, TRUE, failT, stop) : a2 \in
                   {CalcTarget(a1, clock, "sv_regions", F[Bed("sv_regions")].ex,
                               FALSE, FALSE, failT, stop) : a1 \in
                     {CalcTarget(a0, clock, "variant_regions", TRUE,
                                 TRUE, FALSE, failT, stop)}}}} : TRUE

CalcNone ==
    [n |-> 0, ok |-> TRUE, tools |-> {}, writes |-> {}, depth_files |-> {}]

\* a call of calculate by the pipeline.  calc.n counts the calls completed
\* in a row with the alignment file and the region files unchanged (capped
\* at 2); tools, the targets the external tool was started for; writes, the
\* final paths the call wrote; depth_files, the targets of the returned
\* mapping.
Calculate(failT, stop, empty) ==
    \E c \in {calculate(fs, now, failT, stop, empty)} :
        /\ fs' = c.fs
        /\ calc' = [n |-> IF ~c.ok THEN 0 ELSE IF calc.n = 0 THEN 1 ELSE 2,
                    ok |-> c.ok, tools |-> c.tools, writes |-> c.writes,
                    depth_files |-> c.depth_files]

(* ================================================================== *)
(* Coverage cache                                                      *)
(* ================================================================== *)
\* a path argument that is None
NoneFile == <<"none", "none">>

\* the cache mapping: a function from statistic names to values
EmptyCache == [k \in {} |-> 0]
CacheOf(v) == [k \in {"avg_coverage"} |-> v]

\* yaml.safe_dump of the mapping, as the file content
YamlDump(cache) ==
    IF "avg_coverage" \in DOMAIN cache THEN <<"yaml", cache["avg_coverage"]>>
    ELSE <<"yaml{}", 0>>
\* yaml.safe_load of the file content: the mapping dumped, or None (none
\* true, no mapping) for a file of size 0
YamlLoad(body) ==
    IF body[1] = "yaml" THEN [none |-> FALSE, map |-> CacheOf(body[2])]
    ELSE IF body[1] = "yaml{}" THEN [none |-> FALSE, map |-> EmptyCache]
    ELSE [none |-> TRUE, map |-> EmptyCache]

\* coverage.py 141-146.  The file is opened when it is up to date with
\* every path of reuse_cmp_files that is not None; opening a file that does
\* not exist raises.  none: the value returned is None, not a mapping (the
\* file opened has size 0, which no dependency passed allows).
_read_cache(F, cache_file, reuse_cmp_files) ==
    LET reuse_cmp_file ==
            {reuse_cmp_files[i] : i \in DOMAIN reuse_cmp_files} \ {NoneFile}
    IN  IF \A fn \in reuse_cmp_file : file_uptodate(F, cache_file, fn)
        THEN [cache |-> YamlLoad(F[cache_file].body).map,
              none |-> F[cache_file].ex /\ YamlLoad(F[cache_file].body).none,
              read |-> TRUE, raised |-> ~F[cache_file].ex]
        ELSE [cache |-> EmptyCache, none |-> FALSE, read |-> FALSE,
              raised |-> FALSE]

\* The steps of _write_cache: 1 open(cache_file, "w") has created the file
\* or truncated it to size 0, 2 the dump is written and the file closed.
WriteSteps == 2

\* variant of _write_cache that dumps the mapping as it was before the
\* statistic was added
_write_cache_stale(F, clock, cache, cache_file, wstop) ==
    IF wstop < WriteSteps THEN Put(F, cache_file, clock, <<"empty", 0>>)
    ELSE Put(F, cache_file, clock, YamlDump(EmptyCache))

\* coverage.py 148-150.  wstop: the number of steps completed before the
\* call is interrupted (WriteSteps: no interruption).  The file is opened
\* in place, with no file transaction.
_write_cache(F, clock, cache, cache_file, wstop) ==
    IF wstop < WriteSteps THEN Put(F, cache_file, clock, <<"empty", 0>>)
    ELSE Put(F, cache_file, clock, YamlDump(cache))

\* coverage.py 229-236.  ready: data["depth"][target]["regions"] is set.
\* Returns the path of the region-depth file, the files whose freshness
\* check passed or that the call wrote, and whether the call failed.
regions_coverage(F, clock, t, ready, stop) ==
    IF ready
    THEN [fs |-> F, ok |-> TRUE, path |-> Art(t, "regions"), trusted |-> {}]
    ELSE LET r == run_mosdepth(F, clock, t, FALSE, TRUE, FALSE, FALSE, stop)
         IN  [fs |-> r.fs, ok |-> r.outcome # "failed", path |-> Art(t, "regions"),
              trusted |-> IF r.ran THEN {Art(t, k) : k \in r.moved}
                          ELSE {Art(t, "dist")}]

\* coverage.py 181-193: the average over the rows of the region-depth file;
\* v is the value its rows yield.  Opening a file that does not exist raises.
_average_bed_coverage(F, clock, t, ready, v, stop) ==
    LET rc == regions_coverage(F, clock, t, ready, stop)
    IN  IF ~rc.ok \/ ~rc.fs[rc.path].ex
        THEN [fs |-> rc.fs, ok |-> FALSE, avg_cov |-> 0, reads |-> {},
              trusted |-> rc.trusted]
        ELSE [fs |-> rc.fs, ok |-> TRUE, avg_cov |-> v, reads |-> {rc.path},
              trusted |-> rc.trusted]

\* coverage.py 169-179: the estimate from the index of the alignment file;
\* v is the value it yields.  itertools.islice(..., 1e5) of line 177 takes
\* the float under Python 2 (py2) and raises ValueError under Python 3; the
\* division of line 178 raises when the contig sizes sum to 0 (ref_empty).
_average_genome_coverage(F, v, py2, ref_empty) ==
    IF ~py2 \/ ref_empty
    THEN [fs |-> F, ok |-> FALSE, avg_cov |-> 0, reads |-> {}, trusted |-> {}]
    ELSE [fs |-> F, ok |-> TRUE, avg_cov |-> v, reads |-> {}, trusted |-> {}]

\* coverage.py 152-167.  bed_file: a region file is passed; ready: the
\* pipeline has stored the region-depth path of the target in data["depth"];
\* v: the average a computation yields; stop: as for run_mosdepth; wstop: as
\* for _write_cache; py2, ref_empty: as for _average_genome_coverage.  cut:
\* the call was interrupted inside _write_cache.  The test of line 157 on a
\* None returned by _read_cache raises.
get_average_coverage(F, clock, t, bed_file, ready, v, stop, wstop, py2, ref_empty) ==
    LET cache_file == _get_cache_file(t)
        rd == _read_cache(F, cache_file,
                          <<BAM, IF bed_file THEN Bed(t) ELSE NoneFile>>)
    IN  IF rd.raised \/ rd.none
        THEN [fs |-> F, ok |-> FALSE, read_raised |-> rd.raised, ret |-> 0,
              hit |-> FALSE, loaded |-> rd.none, cut |-> FALSE,
              recomputed |-> FALSE, rewrote |-> FALSE, reads |-> {}, trusted |-> {}]
        ELSE IF "avg_coverage" \in DOMAIN rd.cache
        THEN [fs |-> F, ok |-> TRUE, read_raised |-> FALSE,
              ret |-> rd.cache["avg_coverage"], hit |-> TRUE,
              loaded |-> TRUE, recomputed |-> FALSE, rewrote |-> FALSE,
              cut |-> FALSE,
              reads |-> {cache_file}, trusted |-> {cache_file}]
        ELSE LET a == IF bed_file
                      THEN _average_bed_coverage(F, clock, t, ready, v, stop)
                      ELSE _average_genome_coverage(F, v, py2, ref_empty)
                 rds == a.reads \cup (IF rd.read THEN {cache_file} ELSE {})
                 tru == a.trusted \cup (IF rd.read THEN {cache_file} ELSE {})
             IN  IF ~a.ok
                 THEN [fs |-> a.fs, ok |-> FALSE, read_raised |-> FALSE,
                       ret |-> 0, hit |-> FALSE,
                       loaded |-> rd.read, cut |-> FALSE,
                       recomputed |-> FALSE, rewrote |-> FALSE,
                       reads |-> rds, trusted |-> tru]
                 ELSE [fs |-> _write_cache(a.fs, clock, CacheOf(a.avg_cov),
                                           cache_file, wstop),
                       ok |-> wstop = WriteSteps, read_raised |-> FALSE,
                       ret |-> IF wstop = WriteSteps THEN a.avg_cov ELSE 0,
                       hit |-> FALSE,
                       loaded |-> rd.read, cut |-> wstop < WriteSteps,
                       recomputed |-> TRUE, rewrote |-> wstop = WriteSteps,
                       reads |-> rds, trusted |-> tru]

\* the value get_average_coverage last computed and wrote for a target, with
\* the mtimes the alignment file and the region file had then
NoMemo == [set |-> FALSE, v |-> 0, bam_mt |-> 0, bed_mt |-> 0]
MemoNone == [t \in Targets |-> NoMemo]

\* the largest mtime among the dependencies passed to _read_cache
DepMax(F, t, bed_file) ==
    IF bed_file /\ F[Bed(t)].mt > F[BAM].mt THEN F[Bed(t)].mt ELSE F[BAM].mt

\* a call of get_average_coverage by the pipeline, with the bookkeeping of
\* the call: the cache file and the dependencies as the call found them
\* (pre_ok: the file exists and is not empty; dmax: the newest dependency),
\* whether _read_cache opened the file (loaded) or raised (read_raised),
\* what the call returned, the files it read, those it had checked or just
\* written (trusted) and those read while older than the alignment file
\* (stale); memo forgets the value when the call leaves the file cut
GetAverageCoverage(t, bed_file, v, stop, wstop, py2, ref_empty) ==
    \E g \in {get_average_coverage(fs, now, t, bed_file, t \in depth, v, stop,
                                    wstop, py2, ref_empty)} :
        /\ fs' = g.fs
        /\ gac' = [called |-> TRUE, t |-> t, bed |-> bed_file,
                   pre_ok |-> file_exists(fs, _get_cache_file(t)),
                   pre_mt |-> fs[_get_cache_file(t)].mt,
                   dmax |-> DepMax(fs, t, bed_file),
                   bam_mt |-> fs[BAM].mt, bed_mt |-> fs[Bed(t)].mt,
                   prior |-> gac.memo[t],
                   ok |-> g.ok, read_raised |-> g.read_raised,
                   ret |-> g.ret, hit |-> g.hit, loaded |-> g.loaded,
                   recomputed |-> g.recomputed, rewrote |-> g.rewrote,
                   cut |-> g.cut,
                   reads |-> g.reads, trusted |-> g.trusted,
                   stale |-> {f \in g.reads \ {_get_cache_file(t)} :
                                 ~ file_uptodate(g.fs, f, BAM)},
                   memo |-> IF g.rewrote
                            THEN [gac.memo EXCEPT ![t] =
                                     [set |-> TRUE, v |-> g.ret, bam_mt |-> fs[BAM].mt,
                                      bed_mt |-> fs[Bed(t)].mt]]
                            ELSE IF g.cut
                            THEN [gac.memo EXCEPT ![t] = NoMemo]
                            ELSE gac.memo]

(* ================================================================== *)
(* Average coverage over the rows of a region-depth file               *)
(* ================================================================== *)
\* A line of a region-depth file is a record: comment (the line starts
\* with "#"), start, end and depth (its last column).
DepthRow(start, end, d) == [comment |-> FALSE, start |-> start, end |-> end, depth |-> d]
CommentRow == [comment |-> TRUE, start |-> 0, end |-> 0, depth |-> 0]

RECURSIVE SumSeq(_)
SumSeq(s) == IF s = <<>> THEN 0 ELSE Head(s) + SumSeq(Tail(s))

\* coverage.py 186: the lines that do not start with "#"
DataLines(rows) == SelectSeq(rows, LAMBDA r : ~r.comment)

\* coverage.py 188-190: float(line_tokens[-1]) * (end - start), line by line
avg_covs(rows) ==
    [i \in DOMAIN DataLines(rows) |->
        DataLines(rows)[i].depth * (DataLines(rows)[i].end - DataLines(rows)[i].start)]

\* coverage.py 189, 191: the summed sizes
total_len(rows) ==
    SumSeq([i \in DOMAIN DataLines(rows) |->
                DataLines(rows)[i].end - DataLines(rows)[i].start])

\* variant of avg_cov that averages the depths without weighting them by
\* the sizes
avg_cov_unweighted(rows) ==
    IF total_len(rows) > 0
    THEN <<SumSeq([i \in DOMAIN DataLines(rows) |-> DataLines(rows)[i].depth]),
           Len(DataLines(rows))>>
    ELSE <<0, 1>>

\* coverage.py 192: sum(avg_covs) / total_len if total_len > 0 else 0
avg_cov(rows) ==
    IF total_len(rows) > 0 THEN <<SumSeq(avg_covs(rows)), total_len(rows)>>
    ELSE <<0, 1>>

\* int() of a float that is not negative (coverage.py 165, 167)
IntOf(a) == a[1] \div a[2]

\* the rows of a file whose content is a table
RowsOf(body) == IF body[1] = "rows" THEN body[2] ELSE <<>>

AvgNone == [called |-> FALSE, rows |-> <<>>, avg_cov |-> <<0, 1>>]

\* a call of get_average_coverage with a region file, for a target whose
\* region-depth path the pipeline has stored: the value of a computation is
\* the average over the rows of that file
AverageCoverage(t) ==
    \E rows \in {RowsOf(fs[Art(t, "regions")].body)} :
        /\ GetAverageCoverage(t, TRUE, IntOf(avg_cov(rows)), LastStep, WriteSteps,
                              TRUE, FALSE)
        /\ avg' = [called |-> TRUE, rows |-> rows, avg_cov |-> avg_cov(rows)]

(* ================================================================== *)
(* Percentile summary of a distribution file                           *)
(* ================================================================== *)
\* A line of a distribution file is a record: contig, count (an integer
\* depth) and pct, the fraction of bases in thousandths (954 is "0.954").
DistRow(contig, count, p) == [contig |-> contig, count |-> count, pct |-> p]

\* a row of the summary: "percentage<cutoff_reads>", bases_pct, sample
SummaryRow(count, bases_pct) ==
    [cutoff_reads |-> count, bases_pct |-> bases_pct, sample |-> "sample"]

\* coverage.py 216: "%.1f" % (float(pct) * 100.0), as integer part and
\* first decimal
FormatPct(p) == <<"%.1f", p \div 10, p % 10>>
\* coverage.py 213: the pct column as the string read from the line
RawPct(p) == <<"str", p, 0>>

\* min(cutoffs), max(cutoffs)
MinOf(cutoffs) ==
    CHOOSE x \in {cutoffs[i] : i \in DOMAIN cutoffs} :
        \A i \in DOMAIN cutoffs : x <= cutoffs[i]
MaxOf(cutoffs) ==
    CHOOSE x \in {cutoffs[i] : i \in DOMAIN cutoffs} :
        \A i \in DOMAIN cutoffs : x >= cutoffs[i]

\* variant of InRangeRows with both ends of the range excluded
RECURSIVE InRangeRows_open(_, _)
InRangeRows_open(rows, cutoffs) ==
    IF rows = <<>> THEN <<>>
    ELSE (IF /\ Head(rows).contig = "total"
             /\ Head(rows).count > MinOf(cutoffs)
             /\ Head(rows).count < MaxOf(cutoffs)
          THEN <<SummaryRow(Head(rows).count, FormatPct(Head(rows).pct))>>
          ELSE <<>>) \o InRangeRows_open(Tail(rows), cutoffs)

\* coverage.py 212-218: the rows written during the scan of the file
RECURSIVE InRangeRows(_, _)
InRangeRows(rows, cutoffs) ==
    IF rows = <<>> THEN <<>>
    ELSE (IF /\ Head(rows).contig = "total"
             /\ Head(rows).count >= MinOf(cutoffs)
             /\ Head(rows).count <= MaxOf(cutoffs)
          THEN <<SummaryRow(Head(rows).count, FormatPct(Head(rows).pct))>>
          ELSE <<>>) \o InRangeRows(Tail(rows), cutoffs)

\* coverage.py 219: the comparison after the loop uses count as the last
\* line left it: an int when that line is a total row, else the str of its
\* second column.  Comparing an int with a str raises TypeError under
\* Python 3 and is true under Python 2 (py2); a file with no line leaves
\* count unbound.
FloorRaises(rows, py2) ==
    rows = <<>> \/ (rows[Len(rows)].contig # "total" /\ ~py2)

\* coverage.py 219-220: the row written after the loop, from count and pct
\* as the last line left them
FloorRows(rows, cutoffs, py2) ==
    LET last == rows[Len(rows)]
    IN  IF last.contig = "total"
        THEN (IF MinOf(cutoffs) < last.count
              THEN <<SummaryRow(MinOf(cutoffs), FormatPct(last.pct))>>
              ELSE <<>>)
        ELSE <<SummaryRow(MinOf(cutoffs), RawPct(last.pct))>>

\* bcbio.utils.append_stem(dist_file, "_total_summary")
append_stem(f, stem) == <<f[1], f[2] \o stem>>
\* coverage.py 225: <dirname>/<sample>_bcbio_coverage_avg.txt
out_total_fixed(f) == <<f[1], "bcbio_coverage_avg.txt">>

\* bcbio.utils.copy_plus: the copy of a file, when the file exists
copy_plus(F, clock, orig, new) ==
    IF F[orig].ex THEN Put(F, new, clock, F[orig].body) ELSE F

\* variant of _calculate_percentiles without the test of line 206: the
\* summary is generated by every call
_calculate_percentiles_nogate(F, clock, dist_file, cutoffs, py2) ==
    LET out_total_file == append_stem(dist_file, "_total_summary")
        fixed == out_total_fixed(out_total_file)
        rows == RowsOf(F[dist_file].body)
    IN  IF ~ file_exists(F, dist_file)
        THEN [fs |-> F, ok |-> TRUE, ret |-> <<>>, generated |-> FALSE,
              wrote |-> {}, out |-> <<>>, floor |-> <<>>]
        ELSE IF FloorRaises(rows, py2)
        THEN [fs |-> F, ok |-> FALSE, ret |-> <<>>, generated |-> FALSE,
              wrote |-> {}, out |-> <<>>, floor |-> <<>>]
        ELSE LET out == InRangeRows(rows, cutoffs)
                 floor == FloorRows(rows, cutoffs, py2)
                 G == Put(F, out_total_file, clock, <<"rows", out \o floor>>)
             IN  [fs |-> copy_plus(G, clock, out_total_file, fixed), ok |-> TRUE,
                  ret |-> <<fixed>>, generated |-> TRUE,
                  wrote |-> {out_total_file, fixed}, out |-> out, floor |-> floor]

\* coverage.py 195-227.  Returns the directory after the call, the list
\* returned (ok is false when the call raised), whether the summary was
\* generated and the files written.
_calculate_percentiles(F, clock, dist_file, cutoffs, py2) ==
    LET out_total_file == append_stem(dist_file, "_total_summary")
        fixed == out_total_fixed(out_total_file)
        rows == RowsOf(F[dist_file].body)
    IN  IF ~ file_exists(F, dist_file)
        THEN [fs |-> F, ok |-> TRUE, ret |-> <<>>, generated |-> FALSE,
              wrote |-> {}, out |-> <<>>, floor |-> <<>>]
        ELSE IF file_exists(F, out_total_file)
        THEN [fs |-> copy_plus(F, clock, out_total_file, fixed), ok |-> TRUE,
              ret |-> <<fixed>>, generated |-> FALSE, wrote |-> {fixed},
              out |-> <<>>, floor |-> <<>>]
        ELSE IF FloorRaises(rows, py2)
        THEN [fs |-> F, ok |-> FALSE, ret |-> <<>>, generated |-> FALSE,
              wrote |-> {}, out |-> <<>>, floor |-> <<>>]
        ELSE LET out == InRangeRows(rows, cutoffs)
                 floor == FloorRows(rows, cutoffs, py2)
                 G == Put(F, out_total_file, clock, <<"rows", out \o floor>>)
             IN  [fs |-> copy_plus(G, clock, out_total_file, fixed), ok |-> TRUE,
                  ret |-> <<fixed>>, generated |-> TRUE,
                  wrote |-> {out_total_file, fixed}, out |-> out, floor |-> floor]

PctNone ==
    [called |-> FALSE, dist_ok |-> FALSE, had_summary |-> FALSE, ok |-> TRUE,
     ret |-> <<>>, generated |-> FALSE, wrote |-> {}, rows |-> <<>>,
     cutoffs |-> <<>>, out |-> <<>>, floor |-> <<>>, first |-> <<>>]

\* a call of _calculate_percentiles, with the bookkeeping of the call:
\* dist_ok and had_summary, the distribution file and the summary as the
\* call found them; and, kept from the call that generated the summary:
\* rows and cutoffs, what it scanned; out and floor, the rows it wrote
\* during and after the scan; first, the list it returned
CalculatePercentiles(dist_file, cutoffs, py2) ==
    \E c \in {_calculate_percentiles(fs, now, dist_file, cutoffs, py2)} :
        /\ fs' = c.fs
        /\ pct' = [called |-> TRUE,
                   dist_ok |-> file_exists(fs, dist_file),
                   had_summary |-> file_exists(fs, append_stem(dist_file, "_total_summary")),
                   ok |-> c.ok, ret |-> c.ret, generated |-> c.generated,
                   wrote |-> c.wrote,
                   rows |-> IF c.generated THEN RowsOf(fs[dist_file].body)
                            ELSE pct.rows,
                   cutoffs |-> IF c.generated THEN cutoffs ELSE pct.cutoffs,
                   out |-> IF c.generated THEN c.out ELSE pct.out,
                   floor |-> IF c.generated THEN c.floor ELSE pct.floor,
                   first |-> IF c.generated THEN c.ret ELSE pct.first]

(* ================================================================== *)
(* coverage_region_detailed_stats                                      *)
(* ================================================================== *)
\* coverage.py 29
DEPTH_THRESHOLDS == <<1, 5, 10, 20, 50, 100, 250, 500, 1000, 5000, 10000, 50000>>

\* coverage.py 290-292: os.path.join(out_dir, os.path.basename(f))
OutCopy(f) == <<"out", f[2]>>

\* the kinds of artifact coverage_region_detailed_stats copies
StatsKinds == {"regions", "dist", "thresholds"}

\* coverage.py 294-296: the number of copy_plus calls of the guarded block
CopySteps == 3

\* coverage.py 278-298.  bed_file: a region file is passed; ready:
\* data["depth"][target] is set; stop: the number of copy_plus calls
\* completed before the call is interrupted (CopySteps: no interruption).
\* Subscripting the missing data["depth"][target] raises.
coverage_region_detailed_stats(F, clock, t, bed_file, ready, stop, py2) ==
    IF ~bed_file \/ ~ file_exists(F, Bed(t))
    THEN [fs |-> F, ok |-> TRUE, skipped |-> TRUE, copied |-> FALSE, ret |-> <<>>]
    ELSE IF ~ready
    THEN [fs |-> F, ok |-> FALSE, skipped |-> FALSE, copied |-> FALSE, ret |-> <<>>]
    ELSE LET cov_file == Art(t, "regions")
             dist_file == Art(t, "dist")
             thresholds_file == Art(t, "thresholds")
             out_cov_file == OutCopy(cov_file)
             out_dist_file == OutCopy(dist_file)
             out_thresholds_file == OutCopy(thresholds_file)
             gate == ~ file_uptodate(F, out_cov_file, cov_file)
             F1 == IF gate /\ stop >= 1
                   THEN copy_plus(F, clock, cov_file, out_cov_file) ELSE F
             F2 == IF gate /\ stop >= 2
                   THEN copy_plus(F1, clock, dist_file, out_dist_file) ELSE F1
             F3 == IF gate /\ stop >= 3
                   THEN copy_plus(F2, clock, dist_file, out_thresholds_file) ELSE F2
         IN  IF gate /\ stop < CopySteps
             THEN [fs |-> F3, ok |-> FALSE, skipped |-> FALSE, copied |-> TRUE,
                   ret |-> <<>>]
             ELSE LET p == _calculate_percentiles(F3, clock, out_dist_file,
                                                  DEPTH_THRESHOLDS, py2)
                  IN  [fs |-> p.fs, ok |-> p.ok, skipped |-> FALSE, copied |-> gate,
                       ret |-> IF p.ok
                               THEN p.ret \o <<out_cov_file, out_dist_file,
                                               out_thresholds_file>>
                               ELSE <<>>]

StatsNone ==
    [called |-> FALSE, ok |-> TRUE, skipped |-> FALSE, copied |-> FALSE,
     same |-> {}, missing |-> {}]

\* a call of coverage_region_detailed_stats by the pipeline, with the
\* bookkeeping of the call: same, the kinds whose copy in out_dir has the
\* content of the artifact of that kind when the call ends; missing, the
\* paths returned that are no file
CoverageRegionDetailedStats(t, bed_file, stop, py2) ==
    \E c \in {coverage_region_detailed_stats(fs, now, t, bed_file, t \in depth,
                                             stop, py2)} :
        /\ fs' = c.fs
        /\ stats' = [called |-> TRUE, ok |-> c.ok, skipped |-> c.skipped,
                     copied |-> c.copied,
                     same |-> {k \in StatsKinds :
                                 /\ c.fs[OutCopy(Art(t, k))].ex
                                 /\ c.fs[OutCopy(Art(t, k))].body = c.fs[Art(t, k)].body},
                     missing |-> {c.ret[i] : i \in {j \in DOMAIN c.ret :
                                                       ~ c.fs[c.ret[j]].ex}}]

(* ================================================================== *)
(* The environment of the calls                                        *)
(* ================================================================== *)
\* time passes
Tick ==
    /\ now < MaxTime
    /\ now' = now + 1

\* an upstream step writes the alignment file again
TouchBam ==
    /\ fs[BAM].mt < now
    /\ fs' = Put(fs, BAM, now, <<"bam", now>>)

\* the region file of a target is written again
TouchBed(t) ==
    /\ fs[Bed(t)].mt < now
    /\ fs' = Put(fs, Bed(t), now, <<"bed", now>>)

\* the pipeline runs the depth tool again for a target: the three
\* artifacts coverage_region_detailed_stats copies are written anew, the
\* distribution file with the table rows
Regenerate(t, rows) ==
    /\ fs[Art(t, "regions")].mt < now
    /\ fs' = Put(Put(Put(fs, Art(t, "regions"), now, <<"regions", now>>),
                      Art(t, "thresholds"), now, <<"thresholds", now>>),
                  Art(t, "dist"), now, <<"rows", rows>>)

(* ================================================================== *)
(* Initial states                                                      *)
(* ================================================================== *)
\* A work directory holding the alignment file, the region files beds and,
\* when legacy, a callable file of an earlier version of the pipeline.
InitFS(files, beds, legacy) ==
    [f \in files |->
        IF f = BAM THEN File(0, <<"bam", 0>>)
        ELSE IF \E t \in beds : f = Bed(t) THEN File(0, <<"bed", 0>>)
        ELSE IF legacy /\ f = CallableOld THEN File(0, <<"callable", 0>>)
        ELSE Absent]

GacNone ==
    [called |-> FALSE, t |-> "coverage", bed |-> FALSE, pre_ok |-> FALSE,
     pre_mt |-> 0, dmax |-> 0, bam_mt |-> 0, bed_mt |-> 0, prior |-> NoMemo,
     ok |-> TRUE, read_raised |-> FALSE, ret |-> 0, hit |-> FALSE,
     loaded |-> FALSE, recomputed |-> FALSE, rewrote |-> FALSE, cut |-> FALSE,
     reads |-> {}, trusted |-> {}, stale |-> {}, memo |-> MemoNone]

ClassifierIdle == coverage_interval = "unset" /\ asg = AsgNone
DepthIdle == run = RunNone /\ failed = {} /\ calc = CalcNone
CacheIdle == depth = {} /\ gac = GacNone
ReportIdle == avg = AvgNone /\ pct = PctNone /\ stats = StatsNone

(* ------------------------------------------------------------------ *)
(* Specification of the interval classifier                            *)
(* ------------------------------------------------------------------ *)
InitClassify ==
    /\ coverage_interval \in Labels \cup {"unset"}
    /\ asg = AsgNone
    /\ now = 0
    /\ fs = InitFS({BAM}, {}, FALSE)
    /\ DepthIdle
    /\ ReportIdle
    /\ CacheIdle

\* readstats.number_of_mapped_reads is called only on the branch that counts
\* reads; elsewhere no count exists and 0 stands for it.  Each of the two
\* calls of lines 68-70 returns a count of its own
ReadCounts(vrs, cs, ts) ==
    IF coverage_interval = "unset" /\ ts # 0 /\ counts_reads(vrs, <<cs, ts>>)
    THEN 0..MaxReads ELSE {0}

AssignInterval ==
    /\ \E vrs \in BOOLEAN, ts \in 0..MaxSize :
         \E cs \in 0..ts :
            \E mu \in ReadCounts(vrs, cs, ts), ot \in ReadCounts(vrs, cs, ts) :
               assign_interval(vrs, cs, ts, mu, ot)
    /\ UNCHANGED <<now, fs, depth, run, failed, calc, gac,
                 avg, pct, stats>>

NextClassify == AssignInterval

SpecClassify == InitClassify /\ [][NextClassify]_vars

(* ------------------------------------------------------------------ *)
(* Specification of the depth orchestrator                             *)
(* ------------------------------------------------------------------ *)
Init ==
    /\ ClassifierIdle
    /\ CacheIdle
    /\ DepthIdle
    /\ ReportIdle
    /\ now = 0
    /\ \E beds \in SUBSET Targets, legacy \in BOOLEAN : fs = InitFS(CalcFiles, beds, legacy)

CalculateCall ==
    /\ \E failT \in Targets \cup {"none"}, stop \in 0..(LastStep - 1), empty \in BOOLEAN :
          /\ failT = "none" => stop = 0
          /\ Calculate(failT, stop, empty)
    /\ UNCHANGED <<coverage_interval, asg, now, depth, run, failed, gac,
                 avg, pct, stats>>

TickCalc ==
    /\ Tick
    /\ UNCHANGED <<coverage_interval, asg, fs, depth, run, failed, calc, gac,
                 avg, pct, stats>>

TouchBamCalc ==
    /\ TouchBam
    /\ calc' = [calc EXCEPT !.n = 0]
    /\ UNCHANGED <<coverage_interval, asg, now, depth, run, failed, gac,
                 avg, pct, stats>>

Next == CalculateCall \/ TickCalc \/ TouchBamCalc

Spec == Init /\ [][Next]_vars

(* ------------------------------------------------------------------ *)
(* Specification of run_mosdepth called target by target               *)
(* ------------------------------------------------------------------ *)
\* the targets the calls are made for
RunTargets == {"coverage"}

RunFiles == {BAM} \cup {Art(t, k) : t \in RunTargets, k \in Kinds}

InitRun ==
    /\ ClassifierIdle
    /\ CacheIdle
    /\ DepthIdle
    /\ ReportIdle
    /\ now = 0
    /\ fs = InitFS(RunFiles, {}, FALSE)

\* The points at which a call can fail: none when the tool is not started;
\* else the tool itself (0), after the tool (1) and after each move the call
\* makes.  LastStep is the call that does not fail.
StopPoints(t, per_base, bed_file, quantize, thresholds) ==
    IF file_uptodate(fs, Art(t, "dist"), BAM) THEN {LastStep}
    ELSE {0, 1, LastStep}
         \cup {MoveStep(k) : k \in Requested(per_base, bed_file, quantize, thresholds)}

RunMosdepthCall ==
    /\ \E t \in RunTargets, per_base \in BOOLEAN, bed_file \in BOOLEAN,
          quantize \in BOOLEAN, thresholds \in BOOLEAN :
          \E stop \in StopPoints(t, per_base, bed_file, quantize, thresholds) :
             RunMosdepth(t, per_base, bed_file, quantize, thresholds, stop)
    /\ UNCHANGED <<coverage_interval, asg, now, depth, calc, gac,
                 avg, pct, stats>>

TickRun ==
    /\ Tick
    /\ UNCHANGED <<coverage_interval, asg, fs, depth, run, failed, calc, gac,
                 avg, pct, stats>>

TouchBamRun ==
    /\ TouchBam
    /\ UNCHANGED <<coverage_interval, asg, now, depth, run, failed, calc, gac,
                 avg, pct, stats>>

NextRun == RunMosdepthCall \/ TickRun \/ TouchBamRun

SpecRun == InitRun /\ [][NextRun]_vars

(* ------------------------------------------------------------------ *)
(* Specification of the coverage cache                                 *)
(* ------------------------------------------------------------------ *)
\* the targets the average coverage is asked for
CacheTargets == {"coverage"}

CacheFiles ==
    {BAM} \cup {Bed(t) : t \in CacheTargets}
          \cup {_get_cache_file(t) : t \in CacheTargets}
          \cup {Art(t, k) : t \in CacheTargets, k \in {"dist", "regions"}}

\* The region files exist.  For the targets of ready an earlier calculate
\* call has produced the bundle and the pipeline has stored its paths in
\* data["depth"].
InitCache ==
    /\ ClassifierIdle
    /\ DepthIdle
    /\ ReportIdle
    /\ gac = GacNone
    /\ now = 0
    /\ \E ready \in SUBSET CacheTargets :
          /\ depth = ready
          /\ fs = [f \in CacheFiles |->
                     IF f = BAM THEN File(0, <<"bam", 0>>)
                     ELSE IF f[1] = "input" THEN File(0, <<"bed", 0>>)
                     ELSE IF f[1] \in ready /\ f[2] \in {"dist", "regions"}
                          THEN File(0, <<f[2], 0>>)
                     ELSE Absent]

\* The inputs of a call, each drawn only where the call consumes it: with
\* a region file, the failure point of the depth tool and, when the tool
\* does not fail, the value of the average and the interruption point of
\* _write_cache; without one, the interpreter (Python 2 or not), under
\* Python 2 the reference (with contigs or not) and, when the estimate is
\* made, its value and the interruption point of _write_cache.
CacheInputs(t, bed_file) ==
    IF bed_file
    THEN {[v |-> 0, stop |-> stop, wstop |-> WriteSteps, py2 |-> TRUE,
           ref_empty |-> FALSE] :
              stop \in StopPoints(t, FALSE, TRUE, FALSE, FALSE) \ {LastStep}}
         \cup {[v |-> v, stop |-> LastStep, wstop |-> wstop, py2 |-> TRUE,
                ref_empty |-> FALSE] : v \in 0..MaxCov, wstop \in 1..WriteSteps}
    ELSE {[v |-> 0, stop |-> LastStep, wstop |-> WriteSteps, py2 |-> FALSE,
           ref_empty |-> FALSE],
          [v |-> 0, stop |-> LastStep, wstop |-> WriteSteps, py2 |-> TRUE,
           ref_empty |-> TRUE]}
         \cup {[v |-> v, stop |-> LastStep, wstop |-> wstop, py2 |-> TRUE,
                ref_empty |-> FALSE] : v \in 0..MaxCov, wstop \in 1..WriteSteps}

GetAverageCoverageCall ==
    /\ \E t \in CacheTargets, bed_file \in BOOLEAN :
          \E i \in CacheInputs(t, bed_file) :
             GetAverageCoverage(t, bed_file, i.v, i.stop, i.wstop, i.py2, i.ref_empty)
    /\ UNCHANGED <<coverage_interval, asg, now, depth, run, failed, calc,
                 avg, pct, stats>>

TickCache ==
    /\ Tick
    /\ UNCHANGED <<coverage_interval, asg, fs, depth, run, failed, calc, gac,
                 avg, pct, stats>>

TouchBamCache ==
    /\ TouchBam
    /\ UNCHANGED <<coverage_interval, asg, now, depth, run, failed, calc, gac,
                 avg, pct, stats>>

TouchBedCache ==
    /\ \E t \in CacheTargets : TouchBed(t)
    /\ UNCHANGED <<coverage_interval, asg, now, depth, run, failed, calc, gac,
                 avg, pct, stats>>

NextCache == GetAverageCoverageCall \/ TickCache \/ TouchBamCache \/ TouchBedCache

SpecCache == InitCache /\ [][NextCache]_vars

(* ------------------------------------------------------------------ *)
(* Specification of the region-based average coverage                  *)
(* ------------------------------------------------------------------ *)
\* the tables of at most n lines drawn from R
Tables(R, n) == UNION {[1..k -> R] : k \in 0..n}

\* the lines of a region-depth file: 0-based half-open intervals with a
\* depth, and comment lines
DepthRows ==
    {CommentRow}
    \cup UNION {{DepthRow(a, b, d) : b \in a..MaxPos, d \in 0..MaxDepth} :
                a \in 0..MaxPos}

\* The pipeline has stored the region-depth path of the target; the file
\* holds a table.
InitAvg ==
    /\ ClassifierIdle
    /\ DepthIdle
    /\ ReportIdle
    /\ gac = GacNone
    /\ now = 0
    /\ depth = CacheTargets
    /\ \E rows \in Tables(DepthRows, MaxRows) :
          fs = [f \in CacheFiles |->
                  IF f = BAM THEN File(0, <<"bam", 0>>)
                  ELSE IF f[1] = "input" THEN File(0, <<"bed", 0>>)
                  ELSE IF f[2] = "regions" THEN File(0, <<"rows", rows>>)
                  ELSE IF f[2] = "dist" THEN File(0, <<"dist", 0>>)
                  ELSE Absent]

AverageCoverageCall ==
    /\ \E t \in CacheTargets : AverageCoverage(t)
    /\ UNCHANGED <<coverage_interval, asg, now, depth, run, failed, calc,
                   pct, stats>>

NextAvg == AverageCoverageCall

SpecAvg == InitAvg /\ [][NextAvg]_vars

(* ------------------------------------------------------------------ *)
(* Specification of the percentile summary                             *)
(* ------------------------------------------------------------------ *)
\* the distribution file the summary is made from
PctDist == OutCopy(Art("coverage", "dist"))

PctFiles ==
    {PctDist, append_stem(PctDist, "_total_summary"),
     out_total_fixed(append_stem(PctDist, "_total_summary"))}

\* the lines of a distribution file: per-contig rows and total rows
PctValues == {15, 954}
DistRows ==
    {DistRow(c, n, p) : c \in {"chr1", "total"}, n \in 0..MaxCount, p \in PctValues}

\* the cutoff lists passed: one or two depths, in any order
CutoffLists ==
    {<<a>> : a \in 1..MaxCount} \cup {<<a, b>> : a \in 1..MaxCount, b \in 1..MaxCount}

\* The distribution file does not exist or holds at least one line; no
\* summary has been made.
InitPct ==
    /\ ClassifierIdle
    /\ DepthIdle
    /\ CacheIdle
    /\ ReportIdle
    /\ now = 0
    /\ \E rows \in Tables(DistRows, MaxRows) :
          fs = [f \in PctFiles |->
                  IF f = PctDist /\ rows # <<>> THEN File(0, <<"rows", rows>>)
                  ELSE Absent]

\* the interpreters that differ on the call: the comparison of line 219 is
\* between an int and a str only when the last line is no total row
Interpreters(dist_file) ==
    IF /\ file_exists(fs, dist_file)
       /\ RowsOf(fs[dist_file].body) # <<>>
       /\ RowsOf(fs[dist_file].body)[Len(RowsOf(fs[dist_file].body))].contig # "total"
    THEN BOOLEAN ELSE {FALSE}

CalculatePercentilesCall ==
    /\ \E cutoffs \in CutoffLists, py2 \in Interpreters(PctDist) :
          CalculatePercentiles(PctDist, cutoffs, py2)
    /\ UNCHANGED <<coverage_interval, asg, now, depth, run, failed, calc, gac,
                   avg, stats>>

NextPct == CalculatePercentilesCall

SpecPct == InitPct /\ [][NextPct]_vars

(* ------------------------------------------------------------------ *)
(* Specification of the detailed statistics of the coverage target     *)
(* ------------------------------------------------------------------ *)
StatsTarget == "coverage"

StatsFiles ==
    {BAM, Bed(StatsTarget)}
    \cup {Art(StatsTarget, k) : k \in StatsKinds}
    \cup {OutCopy(Art(StatsTarget, k)) : k \in StatsKinds}
    \cup {append_stem(PctDist, "_total_summary"),
          out_total_fixed(append_stem(PctDist, "_total_summary"))}

\* the tables the depth tool writes as distribution file
StatsDists ==
    {<<DistRow("total", 50000, 10), DistRow("total", 10, 950)>>,
     <<DistRow("total", 10, 950), DistRow("total", 50000, 10)>>,
     <<DistRow("total", 10, 950), DistRow("chr1", 10, 954)>>}

\* calculate has produced the bundle of the coverage target; the pipeline
\* has stored its paths in data["depth"] or (stored false) has not.
InitStats ==
    /\ ClassifierIdle
    /\ DepthIdle
    /\ ReportIdle
    /\ gac = GacNone
    /\ now = 0
    /\ \E stored \in BOOLEAN, bed \in BOOLEAN, rows \in StatsDists :
          /\ depth = IF stored THEN {StatsTarget} ELSE {}
          /\ fs = [f \in StatsFiles |->
                     IF f = BAM THEN File(0, <<"bam", 0>>)
                     ELSE IF f = Bed(StatsTarget)
                          THEN (IF bed THEN File(0, <<"bed", 0>>) ELSE Absent)
                     ELSE IF f = Art(StatsTarget, "dist") THEN File(0, <<"rows", rows>>)
                     ELSE IF f[1] = StatsTarget THEN File(0, <<f[2], 0>>)
                     ELSE Absent]

CoverageRegionDetailedStatsCall ==
    /\ \E bed_file \in BOOLEAN, stop \in 0..CopySteps, py2 \in BOOLEAN :
          CoverageRegionDetailedStats(StatsTarget, bed_file, stop, py2)
    /\ UNCHANGED <<coverage_interval, asg, now, depth, run, failed, calc, gac,
                   avg, pct>>

TickStats ==
    /\ Tick
    /\ UNCHANGED <<coverage_interval, asg, fs, depth, run, failed, calc, gac,
                   avg, pct, stats>>

RegenerateStats ==
    /\ \E rows \in StatsDists : Regenerate(StatsTarget, rows)
    /\ UNCHANGED <<coverage_interval, asg, now, depth, run, failed, calc, gac,
                   avg, pct, stats>>

NextStats == CoverageRegionDetailedStatsCall \/ TickStats \/ RegenerateStats

SpecStats == InitStats /\ [][NextStats]_vars

(* ================================================================== *)
(* Properties                                                          *)
(* ================================================================== *)

\* C1: when calculate is called twice in a row with the alignment file and
\* the region files unchanged, the second call starts the external tool for
\* no target and writes no file, the synthesized whole-genome region file
\* included.
C1_Idempotent ==
    calc.n = 2 => (calc.tools = {} /\ calc.writes = {})

\* C2: a run_mosdepth call that fails, at whatever step, has created or
\* modified no final artifact path of its target.
C2_Atomic ==
    (run.called /\ run.outcome = "failed") => run.moved = {}

\* C3: after a failed run_mosdepth call the distribution file of the target
\* is not up to date with the alignment file; the next call for the target
\* starts the tool again and, when it succeeds, has put every file of the
\* requested bundle in place.
C3_RetrySafe ==
    /\ \A t \in failed : ~ file_uptodate(fs, Art(t, "dist"), BAM)
    /\ (run.called /\ run.retry) =>
          /\ run.ran
          /\ run.outcome = "ok" =>
                /\ run.complete
                /\ "dist" \in run.moved
                /\ run.fresh

\* a retry after a failure, which ran the tool and put three files in place
C3_Witness ==
    /\ run.called /\ run.retry /\ run.outcome = "ok"
    /\ {"dist", "regions", "thresholds"} \subseteq run.moved

\* C4: whatever a call reads or reuses, it has checked to be up to date in
\* the same call (or has just written); no region-depth file is read once
\* the alignment file is newer than it.
C4_FreshReads ==
    gac.called => (gac.reads \subseteq gac.trusted /\ gac.stale = {})

\* C5: once get_average_coverage has computed and written v for a target, a
\* later call for the target made with the mtimes of the alignment file and
\* of the region file unchanged returns v, computes nothing and does not
\* write the cache file.
C5_CacheRoundTrip ==
    (/\ gac.called /\ gac.prior.set
     /\ gac.prior.bam_mt = gac.bam_mt /\ gac.prior.bed_mt = gac.bed_mt)
    => (/\ gac.ok /\ gac.hit /\ gac.ret = gac.prior.v
        /\ ~gac.recomputed /\ ~gac.rewrote)

\* a value written by one call and returned by the next, after time has
\* passed
C5_Witness ==
    /\ gac.called /\ gac.prior.set /\ gac.hit
    /\ gac.prior.bam_mt = gac.bam_mt /\ gac.prior.bed_mt = gac.bed_mt
    /\ gac.ret = gac.prior.v /\ gac.ret > 0 /\ gac.bed
    /\ now > gac.pre_mt

\* C6: a cache file that is not strictly newer than every dependency
\* passed is treated as absent (not opened, so the value is recomputed), and
\* _read_cache never raises.
C6_StrictlyNewer ==
    gac.called =>
        /\ ~(gac.pre_ok /\ gac.pre_mt > gac.dmax) => ~gac.loaded
        /\ ~gac.read_raised

\* C7: once coverage_interval is set no assign_interval call changes it, and
\* a call that finds it set computes no size, counts no read and writes
\* nothing.
C7_SetOnce ==
    /\ [](asg.called /\ asg.pre # "unset" =>
            /\ ~asg.sized /\ ~asg.counted /\ ~asg.wrote
            /\ coverage_interval = asg.pre)
    /\ [][coverage_interval # "unset" => coverage_interval' = coverage_interval]_vars

\* a call on a slot already set to amplicon, for a sample whose regions
\* cover the whole reference
C7_Witness ==
    /\ asg.called /\ asg.pre = "amplicon" /\ coverage_interval = "amplicon"
    /\ asg.ts > 0 /\ asg.cs = asg.ts

\* C8: with the slot unset and callable_size / total_size > 0.40 the label
\* is genome, with or without a target region file, and no read is counted.
C8_GenomeAboveThreshold ==
    (asg.called /\ asg.pre = "unset" /\ asg.ts > 0 /\ asg.cs * 100 > 40 * asg.ts)
    => (coverage_interval = "genome" /\ asg.wrote /\ ~asg.counted)

\* the genome label given to a sample that has a target region file
C8_Witness ==
    /\ asg.called /\ asg.pre = "unset" /\ asg.vrs
    /\ asg.cs * 100 > 40 * asg.ts /\ asg.cs < asg.ts
    /\ coverage_interval = "genome"

\* C9: with the slot unset and callable_size / total_size <= 0.40 the label
\* is regional without a target region file; with one it is regional when
\* (mapped_unique - ontarget) / mapped_unique > 0.01 and amplicon otherwise,
\* also when no read is mapped.
C9_BelowThreshold ==
    (asg.called /\ asg.pre = "unset" /\ asg.ts > 0 /\ asg.cs * 100 <= 40 * asg.ts)
    => /\ asg.wrote
       /\ coverage_interval =
            IF ~asg.vrs THEN "regional"
            ELSE IF asg.mu > 0 /\ (asg.mu - asg.ot) * 100 > asg.mu THEN "regional"
            ELSE "amplicon"

\* both thresholds met exactly: 40% of the reference, 1% of the reads off
\* target
C9_Witness ==
    /\ asg.called /\ asg.pre = "unset" /\ asg.vrs
    /\ asg.cs * 100 = 40 * asg.ts /\ asg.ts > 0
    /\ asg.mu > 0 /\ (asg.mu - asg.ot) * 100 = asg.mu
    /\ coverage_interval = "amplicon"

\* C10: for all non-negative counts mapped_unique and ontarget returned by
\* the two counting calls, the offtarget fraction lies in [0, 1], and it is
\* 0 (no error) when mapped_unique is 0.
C10_OfftargetRange ==
    asg.counted =>
        /\ ~asg.raised
        /\ asg.off[2] > 0
        /\ 0 <= asg.off[1] /\ asg.off[1] <= asg.off[2]
        /\ asg.mu = 0 => asg.off[1] = 0

\* C11: when _calculate_percentiles generates the summary and the smallest
\* count among the total rows of the distribution file exceeds min(cutoffs),
\* exactly one row percentage<min(cutoffs)> is written after the scan and it
\* carries the percentage of a total row of that smallest count, whatever
\* the order of the rows and whatever the last line is.
C11_FloorRow ==
    pct.generated =>
        LET T == {i \in DOMAIN pct.rows : pct.rows[i].contig = "total"}
            low == {i \in T : \A j \in T : pct.rows[i].count <= pct.rows[j].count}
        IN  (T # {} /\ \A i \in T : pct.rows[i].count > MinOf(pct.cutoffs))
            => /\ Len(pct.floor) = 1
               /\ \E i \in low :
                     pct.floor[1] = SummaryRow(MinOf(pct.cutoffs),
                                               FormatPct(pct.rows[i].pct))

\* C12: the summary generated holds, in file order, one row for each total
\* row whose count lies in [min(cutoffs), max(cutoffs)], labelled by the
\* count and carrying pct * 100 to one decimal and the sample, followed by
\* at most one floor row; other lines give no row.
C12_InRangeRows ==
    pct.generated =>
        LET rows == pct.rows
            idx == {i \in DOMAIN rows :
                       /\ rows[i].contig = "total"
                       /\ \E j \in DOMAIN pct.cutoffs : pct.cutoffs[j] <= rows[i].count
                       /\ \E j \in DOMAIN pct.cutoffs : rows[i].count <= pct.cutoffs[j]}
            rank(i) == Cardinality({j \in idx : j <= i})
        IN  /\ Len(pct.out) = Cardinality(idx)
            /\ \A i \in idx :
                  /\ pct.out[rank(i)].cutoff_reads = rows[i].count
                  /\ pct.out[rank(i)].sample = "sample"
                  /\ pct.out[rank(i)].bases_pct[1] = "%.1f"
                  /\ pct.out[rank(i)].bases_pct[3] \in 0..9
                  /\ 10 * pct.out[rank(i)].bases_pct[2] + pct.out[rank(i)].bases_pct[3]
                        = rows[i].pct
            /\ Len(pct.floor) <= 1
            /\ fs[append_stem(PctDist, "_total_summary")].body
                  = <<"rows", pct.out \o pct.floor>>

\* a summary made from a contig row and a total row of the same count, that
\* count within the cutoffs: one row, for the total row
C12_Witness ==
    /\ pct.generated /\ Len(pct.rows) = 2 /\ Len(pct.cutoffs) = 2
    /\ pct.rows[1].contig = "chr1" /\ pct.rows[2].contig = "total"
    /\ pct.rows[1].count = MaxOf(pct.cutoffs)
    /\ pct.rows[2].count = MaxOf(pct.cutoffs)
    /\ MinOf(pct.cutoffs) < MaxOf(pct.cutoffs)
    /\ Len(pct.out) = 1 /\ pct.out[1].bases_pct = <<"%.1f", 95, 4>>

\* C13: a calculate call that completes returns an entry for exactly the
\* targets that have a region file (variant_regions always), whatever the
\* work directory held before; for a target without region file the tool
\* is not started and no artifact is written.
C13_TargetSelection ==
    calc.n >= 1 =>
        /\ calc.depth_files
              = {"variant_regions"} \cup {t \in Targets : fs[Bed(t)].ex}
        /\ \A t \in Targets \ {"variant_regions"} :
              ~ fs[Bed(t)].ex =>
                  /\ t \notin calc.tools
                  /\ \A k \in Kinds : Art(t, k) \notin calc.writes

\* C14: with data rows (start, end, depth), _average_bed_coverage returns
\* sum(depth * (end - start)) / sum(end - start), and 0 when the summed
\* length is 0; get_average_coverage returns that value truncated.
C14_RegionAverage ==
    avg.called =>
        LET D == {i \in DOMAIN avg.rows : ~ avg.rows[i].comment}
            size(i) == avg.rows[i].end - avg.rows[i].start
            RECURSIVE Sum(_, _)
            Sum(I, weighted) ==
                IF I = {} THEN 0
                ELSE LET i == CHOOSE x \in I : TRUE
                     IN  (IF weighted THEN avg.rows[i].depth * size(i) ELSE size(i))
                         + Sum(I \ {i}, weighted)
            total == Sum(D, FALSE)
            wsum == Sum(D, TRUE)
        IN  /\ avg.avg_cov[2] > 0
            /\ avg.avg_cov[1] * total = wsum * avg.avg_cov[2]
            /\ total = 0 => avg.avg_cov[1] = 0
            /\ gac.called /\ gac.ok
            /\ total = 0 => gac.ret = 0
            /\ total > 0 => /\ gac.ret * total <= wsum
                            /\ wsum < (gac.ret + 1) * total

\* two rows of the same length at depths 1 and 3 give 2; a comment line is
\* not counted
C14_Witness ==
    /\ avg.called /\ gac.recomputed /\ Len(avg.rows) = 2
    /\ ~ avg.rows[1].comment /\ ~ avg.rows[2].comment
    /\ avg.rows[1].end - avg.rows[1].start = avg.rows[2].end - avg.rows[2].start
    /\ avg.rows[1].end > avg.rows[1].start
    /\ avg.rows[1].depth = 1 /\ avg.rows[2].depth = 3
    /\ gac.ret = 2

\* C15: every path of the bundle a run_mosdepth call returns is a file,
\* whatever options the earlier calls for the target were made with.
C15_BundleComplete ==
    (run.called /\ run.outcome # "failed") => run.complete

\* C16: the cache file of a target is absent or holds a complete mapping, at
\* every point, an interruption inside _write_cache included.
C16_NeverPartial ==
    \A t \in CacheTargets :
        fs[_get_cache_file(t)].ex => fs[_get_cache_file(t)].body[1] = "yaml"

\* C17: with the slot unset and a total reference length of 0,
\* assign_interval raises: the slot stays unset and no read is counted.
C17_ZeroReference ==
    (asg.called /\ asg.pre = "unset" /\ asg.ts = 0)
    => (/\ asg.raised /\ ~asg.wrote /\ ~asg.counted
        /\ coverage_interval = "unset")

\* a call on a sample with a target region file and an empty contig list
C17_Witness ==
    /\ asg.called /\ asg.pre = "unset" /\ asg.ts = 0 /\ asg.vrs
    /\ asg.raised /\ coverage_interval = "unset"

\* C18: without distribution file _calculate_percentiles returns the empty
\* list and writes nothing; when the summary exists a call leaves it as the
\* generating call wrote it, writes the fixed-name copy only and returns the
\* one-path list that call returned.
C18_ExistenceGates ==
    pct.called =>
        /\ ~pct.dist_ok => (pct.ok /\ pct.ret = <<>> /\ pct.wrote = {})
        /\ (pct.dist_ok /\ pct.had_summary) =>
              /\ pct.ok /\ ~pct.generated
              /\ pct.wrote = {out_total_fixed(append_stem(PctDist, "_total_summary"))}
              /\ Len(pct.ret) = 1 /\ pct.ret = pct.first
              /\ fs[append_stem(PctDist, "_total_summary")].body
                    = <<"rows", pct.out \o pct.floor>>

\* a call that found the two-row summary an earlier call had generated
C18_Witness ==
    /\ pct.called /\ pct.had_summary /\ ~pct.generated
    /\ pct.ret = pct.first /\ Len(pct.ret) = 1
    /\ Len(pct.out) = 2

\* C19: after a coverage_region_detailed_stats call for a target with a
\* region file, the copy of each kind in out_dir has the content of the
\* artifact of that kind; and whenever the regions copy is up to date with
\* the regions artifact, the three copies exist.
C19_FaithfulCopies ==
    /\ (stats.called /\ stats.ok /\ ~stats.skipped) => stats.same = StatsKinds
    /\ file_uptodate(fs, OutCopy(Art(StatsTarget, "regions")),
                     Art(StatsTarget, "regions"))
          => \A k \in StatsKinds : fs[OutCopy(Art(StatsTarget, k))].ex
====
